---- MODULE Spec2Model ----
(***************************************************************************)
(* A model of secret-santa: the pairing engine (App.pick_pairings), its    *)
(* retry driver and output phase (App.main_loop, App.send_message,         *)
(* safe_write) and the pid-file lock around a run (PIDFile, App.run).      *)
(*                                                                         *)
(* Strings of the configuration are modelled as sequences of lexemes: a    *)
(* participant name is one lexeme, and so are the blank " " and the comma  *)
(* ",".  str.split() cuts such a text at its blanks, so that the token     *)
(* written "Joe," is the two-lexeme sequence <<"Joe", ",">>, which is not  *)
(* the identifier <<"Joe">>.                                               *)
(***************************************************************************)
EXTENDS Integers, Sequences, FiniteSets, TLC

VARIABLES
    \* ---- the loaded configuration and command line (fixed during a run)
    sections,       \* config.sections(): section names in file order
    exclude,        \* the 'exclude' option text of each participant section
    no_circles,     \* args.no_circles
    max_tries,      \* config.getint(app, 'max_tries')
    pairings_file,  \* whether args.pairings_file is given
    \* ---- main_loop
    pc,             \* where the run is
    tries,
    picked,
    pairings,       \* main_loop's local: [state, dict]
    \* ---- pick_pairings (the attempt in progress)
    pp_pairings,    \* pick_pairings' local dict 'pairings', in insertion order
    people,         \* the recipients still available
    section_i,      \* index in sections of the section the for loop is at
    \* ---- the outside world
    target,         \* content of the file at args.pairings_file
    tempfile,       \* the NamedTemporaryFile of safe_write
    sent,           \* the calls of send_message made so far
    errlog,         \* the messages given to logger.error, in order
    \* ---- the pid file and the invocations contending for it
    pid_path,       \* the inode the pid-file path names: {} or {inode}
    locks,          \* per inode, the invocations holding its flock
    pid_data,       \* per inode, the pid written in it: {} or {pid}
    fd,             \* per invocation, the inode its PIDFile.pidfile is open on
    ppc,            \* per invocation, where it is in App.run
    outcome,        \* per invocation, how its run ended
    seen_running    \* history: per invocation, the invocations that were inside
                    \* main_loop, holding the lock, when it opened the pid file

vars == <<sections, exclude, no_circles, max_tries, pairings_file,
          pc, tries, picked, pairings, pp_pairings, people, section_i,
          target, tempfile, sent, errlog,
          pid_path, locks, pid_data, fd, ppc, outcome, seen_running>>

\* the variables of one run of main_loop
run_vars == <<sections, exclude, no_circles, max_tries, pairings_file,
              pc, tries, picked, pairings, pp_pairings, people, section_i,
              target, tempfile, sent, errlog>>

\* the variables of the pid-file lock
lock_vars == <<pid_path, locks, pid_data, fd, ppc, outcome, seen_running>>

config_vars == <<sections, exclude, no_circles, max_tries, pairings_file>>

----------------------------------------------------------------------------
(* Bounds of the model *)

\* the largest configuration drawn exhaustively: its participants plus the
\* identifiers written in all their 'exclude' options together
MaxSize == 5

\* the largest max_tries drawn
MaxTries == 3

\* the number of invocations contending for the pid file
NumProcs == 3

----------------------------------------------------------------------------
(* Configuration *)

app_name == "secret-santa"

\* the participant sections of the sample configuration, in file order
Names == <<"Joe", "Holly", "Jane", "Peter">>

NameSet == {Names[i] : i \in 1..Len(Names)}

Blank == " "
Comma == ","

----------------------------------------------------------------------------
(* Python lists and dicts *)

\* x in xs
In(x, xs) == \E i \in 1..Len(xs) : xs[i] = x

\* the index of the first occurrence of x in xs (x in xs)
IndexOf(x, xs) == CHOOSE i \in 1..Len(xs) : xs[i] = x /\ \A j \in 1..(i-1) : xs[j] # x

\* xs without its element at index i
RemoveAt(xs, i) == SubSeq(xs, 1, i-1) \o SubSeq(xs, i+1, Len(xs))

\* list.remove(x), for x in xs: the first occurrence goes
Remove(xs, x) == RemoveAt(xs, IndexOf(x, xs))

\* a dict is the sequence of its <<key, value>> items in insertion order
Keys(d) == {d[i][1] : i \in 1..Len(d)}

Values(d) == {d[i][2] : i \in 1..Len(d)}

\* d[k], for k a key of d
Get(d, k) == d[CHOOSE i \in 1..Len(d) : d[i][1] = k][2]

----------------------------------------------------------------------------
(* str.split(): the maximal runs of non-blank lexemes of a text, in order *)

RECURSIVE SplitFrom(_, _, _)
\* tokens of text[i..], given the run `word` read just before position i
SplitFrom(text, i, word) ==
    IF i > Len(text)
    THEN IF word = <<>> THEN <<>> ELSE <<word>>
    ELSE IF text[i] = Blank
         THEN IF word = <<>>
              THEN SplitFrom(text, i+1, <<>>)
              ELSE <<word>> \o SplitFrom(text, i+1, <<>>)
         ELSE SplitFrom(text, i+1, Append(word, text[i]))

split(text) == SplitFrom(text, 1, <<>>)

\* the string of identifier p, as split() would return it
Str(p) == <<p>>

----------------------------------------------------------------------------
(* pick_pairings: the options of one giver *)

\* mutant of ExcludeSelf: the giver itself stays an option
ExcludeSelf_Off(options, person) == options

\* "if person in options: options.remove(person)" (lines 208-210)
ExcludeSelf(options, person) ==
    IF In(person, options) THEN Remove(options, person) ELSE options

\* mutant of ExcludeListed: the 'exclude' option is not applied
ExcludeListed_Skip(options, excl, i) == options

RECURSIVE ExcludeListed(_, _, _)
\* "for x in exclude: if x in options: options.remove(x)", from token i on
ExcludeListed(options, excl, i) ==
    IF i > Len(excl) THEN options
    ELSE LET hit == {j \in 1..Len(options) : Str(options[j]) = excl[i]}
         IN  ExcludeListed(IF hit = {} THEN options
                           ELSE RemoveAt(options, CHOOSE j \in hit : \A k \in hit : j <= k),
                           excl, i+1)

\* mutant of ExcludeCircular: the check is made on the key, "pair == person",
\* which no item of the dict meets yet, so that nothing is taken away
ExcludeCircular_Off(options, d, person, i) == options

\* mutant of ExcludeCircular: only the item added last is looked at
ExcludeCircular_LastOnly(options, d, person, i) ==
    IF d # <<>> /\ d[Len(d)][2] = person /\ In(d[Len(d)][1], options)
    THEN Remove(options, d[Len(d)][1]) ELSE options

RECURSIVE ExcludeCircular(_, _, _, _)
\* "for pair in pairings: if pairings[pair] == person and pair in options:
\*  options.remove(pair)", from item i of the dict on
ExcludeCircular(options, d, person, i) ==
    IF i > Len(d) THEN options
    ELSE ExcludeCircular(IF d[i][2] = person /\ In(d[i][1], options)
                         THEN Remove(options, d[i][1]) ELSE options,
                         d, person, i+1)

\* mutant of Consume: the chosen recipient stays available
Consume_Keep(ppl, recipient) == ppl

\* mutant of Consume: the head of the list goes, "people.pop(0)"
Consume_PopFirst(ppl, recipient) == Tail(ppl)

\* "people.remove(pairings[person])" (line 231)
Consume(ppl, recipient) == Remove(ppl, recipient)

\* the list 'options' at line 222, for giver `person`
Options(person, ppl, d, text, nc) ==
    LET o1 == ExcludeSelf(ppl, person)
        o2 == ExcludeListed(o1, split(text), 1)
    IN  IF nc THEN ExcludeCircular(o2, d, person, 1) ELSE o2

----------------------------------------------------------------------------
(* The configurations drawn *)

\* position of a name in Names
Pos(n) == CHOOSE i \in 1..Len(Names) : Names[i] = n

\* the lists of at most k identifiers an 'exclude' option may name (each once,
\* in the order of Names: the order of removals does not change the options
\* left)
IdLists(k) ==
    {ids \in UNION {[1..j -> NameSet] : j \in 0..k} :
        \A i \in 1..(Len(ids)-1) : Pos(ids[i]) < Pos(ids[i+1])}

RECURSIVE Joined(_, _)
\* the text listing ids with separator sep between them
Joined(ids, sep) ==
    IF Len(ids) <= 1 THEN ids
    ELSE <<Head(ids)>> \o sep \o Joined(Tail(ids), sep)

\* both ways of writing a list: "Joe Jane" and "Joe, Jane"
ExcludeTexts(k) ==
    {Joined(ids, <<Blank>>) : ids \in IdLists(k)}
        \cup {Joined(ids, <<Comma, Blank>>) : ids \in IdLists(k)}

\* how many identifiers a text names
IdCount(text) == Cardinality({i \in 1..Len(text) : text[i] \in NameSet})

RECURSIVE IdTotal(_, _)
IdTotal(f, S) ==
    IF S = {} THEN 0
    ELSE LET p == CHOOSE q \in S : TRUE IN IdCount(f[p]) + IdTotal(f, S \ {p})

\* the rosters of n participants (the first n names of Names; the others are
\* then identifiers of nobody) with every choice of at most k exclusions
ConfigsOf(n, k) ==
    {[sections |-> <<app_name>> \o SubSeq(Names, 1, n), exclude |-> f] :
        f \in {g \in [{Names[i] : i \in 1..n} -> ExcludeTexts(k)] :
                  IdTotal(g, {Names[i] : i \in 1..n}) <= k}}

\* every configuration of size at most MaxSize
SmallConfigs ==
    UNION {ConfigsOf(n, MaxSize - n) :
            n \in 0..(IF MaxSize < Len(Names) THEN MaxSize ELSE Len(Names))}

\* the roster of the sample configuration, with Holly's list written with
\* separator sep
SampleExclude(sep) ==
    [p \in NameSet |->
        CASE p = "Joe"   -> <<"Holly">>
          [] p = "Holly" -> Joined(<<"Joe", "Jane">>, sep)
          [] p = "Jane"  -> <<"Peter">>
          [] p = "Peter" -> <<"Jane">>]

SampleConfigs ==
    {[sections |-> <<app_name>> \o Names, exclude |-> SampleExclude(sep)] :
        sep \in {<<Blank>>, <<Comma, Blank>>}}

\* config.get(k, 'email')
email(k) ==
    CASE k = "Joe"   -> "joe_blow@example.com"
      [] k = "Holly" -> "holly_hobby@example.com"
      [] k = "Jane"  -> "jane_doe@example.com"
      [] k = "Peter" -> "peter_piper@example.com"

----------------------------------------------------------------------------
(* Files *)

NoFile == [exists |-> FALSE, data |-> <<>>]

\* what a file at args.pairings_file may hold before the run
OldFile == [exists |-> TRUE, data |-> << <<"old", "content">> >>]

\* the keys of a dict in the order pprint sorts them
SortedNames == <<"Holly", "Jane", "Joe", "Peter">>

\* pprint.pformat(d): the items of d sorted by key
pformat(d) ==
    LET RECURSIVE From(_)
        From(i) == IF i > Len(SortedNames) THEN <<>>
                   ELSE (IF SortedNames[i] \in Keys(d)
                         THEN << <<SortedNames[i], Get(d, SortedNames[i])>> >>
                         ELSE <<>>) \o From(i+1)
    IN  From(1)

----------------------------------------------------------------------------
(* One run of main_loop *)

Unbound == [state |-> "unbound", dict |-> <<>>]
None == [state |-> "None", dict |-> <<>>]
Dict(d) == [state |-> "dict", dict |-> d]

Procs == 1..NumProcs

\* inode p is the file invocation p creates; inode 0 is a pid file left behind
\* by an earlier run
Inodes == 0..NumProcs

\* no invocation has started, and no pid file exists
LockIdle ==
    /\ pid_path = {}
    /\ locks = [i \in Inodes |-> {}]
    /\ pid_data = [i \in Inodes |-> {}]
    /\ fd = [p \in Procs |-> {}]
    /\ ppc = [p \in Procs |-> "start"]
    /\ outcome = [p \in Procs |-> "none"]
    /\ seen_running = [p \in Procs |-> {}]

Init ==
    /\ \E c \in SmallConfigs \cup SampleConfigs :
            sections = c.sections /\ exclude = c.exclude
    /\ no_circles \in BOOLEAN
    /\ max_tries \in 0..MaxTries
    /\ pairings_file \in BOOLEAN
    /\ target \in IF pairings_file THEN {NoFile, OldFile} ELSE {NoFile}
    /\ pc = "loop"
    /\ tries = 0
    /\ picked = FALSE
    /\ pairings = Unbound
    /\ pp_pairings = <<>>
    /\ people = <<>>
    /\ section_i = 0
    /\ tempfile = NoFile
    /\ sent = <<>>
    /\ errlog = <<>>
    /\ LockIdle

\* mutant of LoopCondition: a success does not end the loop
LoopCondition_IgnoresPicked == tries < max_tries

\* mutant of LoopCondition: one attempt too many
LoopCondition_OffByOne == tries <= max_tries /\ ~picked

\* "while tries < max_tries and not picked" (line 285)
LoopCondition == tries < max_tries /\ ~picked

\* mutant of FreshPeople: the list is built once and carried from one attempt
\* to the next
FreshPeople_Carried == IF tries = 0 THEN Remove(sections, app_name) ELSE people

\* "people = self.config.sections(); people.remove(self.app_name.lower())"
\* (lines 193-194)
FreshPeople == Remove(sections, app_name)

\* mutant of FreshPairings: the dict outlives the call (a default argument or
\* an attribute instead of a local)
FreshPairings_Carried == pp_pairings

\* "pairings = {}" (line 192)
FreshPairings == <<>>

\* "while tries < max_tries and not picked": the body is entered, and
\* pick_pairings is called and sets up its locals (lines 286-288, 192-194)
StartAttempt ==
    /\ pc = "loop"
    /\ LoopCondition
    /\ tries' = tries + 1
    /\ pp_pairings' = FreshPairings
    /\ people' = FreshPeople
    /\ section_i' = 1
    /\ pc' = "pick"
    /\ UNCHANGED <<lock_vars, config_vars, picked, pairings, target, tempfile, sent, errlog>>

\* the while condition is false (line 285)
ExitLoop ==
    /\ pc = "loop"
    /\ ~LoopCondition
    /\ pc' = "check"
    /\ UNCHANGED <<lock_vars, config_vars, tries, picked, pairings, pp_pairings, people,
                   section_i, target, tempfile, sent, errlog>>

\* "if person == self.app_name.lower(): continue" (lines 196-198)
SkipApp ==
    /\ pc = "pick"
    /\ section_i <= Len(sections)
    /\ sections[section_i] = app_name
    /\ section_i' = section_i + 1
    /\ UNCHANGED <<lock_vars, config_vars, pc, tries, picked, pairings, pp_pairings, people,
                   target, tempfile, sent, errlog>>

\* the options of the giver the for loop is at
CurrentOptions ==
    Options(sections[section_i], people, pp_pairings,
            exclude[sections[section_i]], no_circles)

\* one giver gets a recipient: random.choice(options) (lines 203-231)
Choose ==
    /\ pc = "pick"
    /\ section_i <= Len(sections)
    /\ sections[section_i] # app_name
    /\ CurrentOptions # <<>>
    /\ \E i \in 1..Len(CurrentOptions) :
        /\ pp_pairings' = Append(pp_pairings, <<sections[section_i], CurrentOptions[i]>>)
        /\ people' = Consume(people, CurrentOptions[i])
    /\ section_i' = section_i + 1
    /\ UNCHANGED <<lock_vars, config_vars, pc, tries, picked, pairings, target, tempfile,
                   sent, errlog>>

\* mutant of Stuck: a giver without options is passed over, "continue"
Stuck_SkipGiver ==
    /\ pc = "pick"
    /\ section_i <= Len(sections)
    /\ sections[section_i] # app_name
    /\ CurrentOptions = <<>>
    /\ section_i' = section_i + 1
    /\ UNCHANGED <<lock_vars, config_vars, pc, tries, picked, pairings, pp_pairings, people,
                   target, tempfile, sent, errlog>>

\* "if not options: ... raise IndexError" (lines 224-228), caught by main_loop:
\* "except IndexError: ... pairings = None" (lines 289-291)
Stuck ==
    /\ pc = "pick"
    /\ section_i <= Len(sections)
    /\ sections[section_i] # app_name
    /\ CurrentOptions = <<>>
    /\ errlog' = errlog \o << <<"No remaining options for", sections[section_i]>>,
                              <<"Retrying pairings.", "">> >>
    /\ pairings' = None
    /\ pc' = "loop"
    /\ UNCHANGED <<lock_vars, config_vars, tries, picked, pp_pairings, people, section_i,
                   target, tempfile, sent>>

\* the for loop is over: "return pairings" (line 235), and main_loop's
\* "pairings = self.pick_pairings()" and "else: picked = True" (lines 288-293)
ReturnPairings ==
    /\ pc = "pick"
    /\ section_i > Len(sections)
    /\ pairings' = Dict(pp_pairings)
    /\ picked' = TRUE
    /\ pc' = "loop"
    /\ UNCHANGED <<lock_vars, config_vars, tries, pp_pairings, people, section_i,
                   target, tempfile, sent, errlog>>

\* "if pairings is None" with pairings never assigned (max_tries < 1): the
\* read raises UnboundLocalError (line 295)
CheckUnbound ==
    /\ pc = "check"
    /\ pairings.state = "unbound"
    /\ pc' = "raised"
    /\ UNCHANGED <<lock_vars, config_vars, tries, picked, pairings, pp_pairings, people,
                   section_i, target, tempfile, sent, errlog>>

\* "if pairings is None: ... sys.exit(1)" (lines 295-297)
CheckNone ==
    /\ pc = "check"
    /\ pairings.state = "None"
    /\ errlog' = Append(errlog, <<"Failed to find all pairings.", "">>)
    /\ pc' = "sys_exit_1"
    /\ UNCHANGED <<lock_vars, config_vars, tries, picked, pairings, pp_pairings, people,
                   section_i, target, tempfile, sent>>

\* pairings is a dict: on to the output (lines 295, 299)
CheckPicked ==
    /\ pc = "check"
    /\ pairings.state = "dict"
    /\ pc' = IF pairings_file THEN "write_open" ELSE "mail"
    /\ UNCHANGED <<lock_vars, config_vars, tries, picked, pairings, pp_pairings, people,
                   section_i, target, tempfile, sent, errlog>>

\* safe_write up to its yield: the temporary file is created (file.py 10-15)
SafeWriteEnter ==
    /\ pc = "write_open"
    /\ tempfile' = [exists |-> TRUE, data |-> <<>>]
    /\ pc' = "write_body"
    /\ UNCHANGED <<lock_vars, config_vars, tries, picked, pairings, pp_pairings, people,
                   section_i, target, sent, errlog>>

\* "f.write(pprint.pformat(pairings))" (line 301)
WriteBody ==
    /\ pc = "write_body"
    /\ tempfile' = [exists |-> TRUE, data |-> pformat(pairings.dict)]
    /\ pc' = "write_exit"
    /\ UNCHANGED <<lock_vars, config_vars, tries, picked, pairings, pp_pairings, people,
                   section_i, target, sent, errlog>>

\* mutant of WriteBodyFails: the file is opened at the target path itself,
\* "open(path, 'w')", and the part written stays there
WriteBodyFails_InPlace ==
    /\ pc = "write_body"
    /\ \E n \in 0..(Len(pformat(pairings.dict)) - 1) :
        target' = [exists |-> TRUE, data |-> SubSeq(pformat(pairings.dict), 1, n)]
    /\ pc' = "raised"
    /\ UNCHANGED <<lock_vars, config_vars, tries, picked, pairings, pp_pairings, people,
                   section_i, tempfile, sent, errlog>>

\* the write fails part-way: the exception leaves safe_write at its yield,
\* nothing after it runs, and main_loop is left by the exception
WriteBodyFails ==
    /\ pc = "write_body"
    /\ \E n \in 0..(Len(pformat(pairings.dict)) - 1) :
        tempfile' = [exists |-> TRUE, data |-> SubSeq(pformat(pairings.dict), 1, n)]
    /\ pc' = "raised"
    /\ UNCHANGED <<lock_vars, config_vars, tries, picked, pairings, pp_pairings, people,
                   section_i, target, sent, errlog>>

\* safe_write after its yield: fchmod, close, rename onto the target; the
\* remove of the old name then fails and is ignored (file.py 17-31)
SafeWriteExit ==
    /\ pc = "write_exit"
    /\ target' = tempfile
    /\ tempfile' = NoFile
    /\ pc' = "mail"
    /\ UNCHANGED <<lock_vars, config_vars, tries, picked, pairings, pp_pairings, people,
                   section_i, sent, errlog>>

\* the item "for k, v in pairings.items()" is at: one per call made so far
MailItem == pairings.dict[Len(sent) + 1]

\* mutant of Call: the address looked up is the recipient's,
\* "self.config.get(v, 'email')"
Call_ToRecipient(raised) ==
    [to |-> email(MailItem[2]), name |-> MailItem[1], pair |-> MailItem[2],
     raised |-> raised]

\* the call send_message(email, k, v) of line 305, and whether it raised
Call(raised) ==
    [to |-> email(MailItem[1]), name |-> MailItem[1], pair |-> MailItem[2],
     raised |-> raised]

\* send_message: the session is set up and the message sent (lines 266-277)
SendMessage ==
    /\ pc = "mail"
    /\ Len(sent) < Len(pairings.dict)
    /\ sent' = Append(sent, Call(FALSE))
    /\ UNCHANGED <<lock_vars, config_vars, pc, tries, picked, pairings, pp_pairings, people,
                   section_i, target, tempfile, errlog>>

\* send_message: smtplib.SMTP, starttls or login raises; the error is logged
\* and send_message returns (lines 266-273)
SendSetupFails ==
    /\ pc = "mail"
    /\ Len(sent) < Len(pairings.dict)
    /\ sent' = Append(sent, Call(FALSE))
    /\ errlog' = Append(errlog, <<"Failed to setup SMTP session", "">>)
    /\ UNCHANGED <<lock_vars, config_vars, pc, tries, picked, pairings, pp_pairings, people,
                   section_i, target, tempfile>>

\* send_message: s.send_message or s.quit raises; the handler formats `e`,
\* which is unbound in the else branch, so the handler itself raises
\* UnboundLocalError before logging, and main_loop is left (lines 275-279)
SendFails ==
    /\ pc = "mail"
    /\ Len(sent) < Len(pairings.dict)
    /\ sent' = Append(sent, Call(TRUE))
    /\ pc' = "raised"
    /\ UNCHANGED <<lock_vars, config_vars, tries, picked, pairings, pp_pairings, people,
                   section_i, target, tempfile, errlog>>

\* the for loop of line 303 is over: main_loop returns
Return ==
    /\ pc = "mail"
    /\ Len(sent) = Len(pairings.dict)
    /\ pc' = "returned"
    /\ UNCHANGED <<lock_vars, config_vars, tries, picked, pairings, pp_pairings, people,
                   section_i, target, tempfile, sent, errlog>>

Next ==
    \/ StartAttempt \/ ExitLoop
    \/ SkipApp \/ Choose \/ Stuck \/ ReturnPairings
    \/ CheckUnbound \/ CheckNone \/ CheckPicked
    \/ SafeWriteEnter \/ WriteBody \/ WriteBodyFails \/ SafeWriteExit
    \/ SendMessage \/ SendSetupFails \/ SendFails \/ Return

Spec == Init /\ [][Next]_vars

----------------------------------------------------------------------------
(* App.run: invocations contending for the pid file.  The run inside the   *)
(* lock is followed by Spec; here main_loop is the stretch between an      *)
(* invocation's __enter__ and its __exit__, with the way it ends.          *)

\* the run variables are not followed here
RunIdle ==
    /\ sections = <<app_name>>
    /\ exclude = <<>>
    /\ no_circles = FALSE
    /\ max_tries = 0
    /\ pairings_file = FALSE
    /\ target = NoFile
    /\ pc = "loop"
    /\ tries = 0
    /\ picked = FALSE
    /\ pairings = Unbound
    /\ pp_pairings = <<>>
    /\ people = <<>>
    /\ section_i = 0
    /\ tempfile = NoFile
    /\ sent = <<>>
    /\ errlog = <<>>

LockInit ==
    /\ RunIdle
    /\ pid_path \in {{}, {0}}
    /\ locks = [i \in Inodes |-> {}]
    /\ pid_data = [i \in Inodes |-> IF i \in pid_path THEN {0} ELSE {}]
    /\ fd = [p \in Procs |-> {}]
    /\ ppc = [p \in Procs |-> "start"]
    /\ outcome = [p \in Procs |-> "none"]
    /\ seen_running = [p \in Procs |-> {}]

\* the inode invocation p has open
Inode(p) == CHOOSE i \in Inodes : i \in fd[p]

\* invocation p holds a flock
HoldsLock(p) == \E i \in Inodes : p \in locks[i]

\* open(self.path, "a+"): the file is created when the path names none, and
\* is neither truncated nor written (line 30)
Open(p) ==
    /\ ppc[p] = "start"
    /\ pid_path' = IF pid_path = {} THEN {p} ELSE pid_path
    /\ fd' = [fd EXCEPT ![p] = pid_path']
    /\ ppc' = [ppc EXCEPT ![p] = "opened"]
    /\ seen_running' = [seen_running EXCEPT
                            ![p] = {q \in Procs : ppc[q] = "main" /\ HoldsLock(q)}]
    /\ UNCHANGED <<run_vars, locks, pid_data, outcome>>

\* fcntl.flock(LOCK_EX | LOCK_NB) succeeds: nobody holds a lock on the inode
\* (line 32)
Flock(p) ==
    /\ ppc[p] = "opened"
    /\ locks[Inode(p)] = {}
    /\ locks' = [locks EXCEPT ![Inode(p)] = {p}]
    /\ ppc' = [ppc EXCEPT ![p] = "locked"]
    /\ UNCHANGED <<run_vars, pid_path, pid_data, fd, outcome, seen_running>>

\* flock raises IOError: "Already running", sys.exit() with status 0; __exit__
\* is not run for a failed __enter__, and the process end closes the file
\* (lines 33-38)
FlockBusy(p) ==
    /\ ppc[p] = "opened"
    /\ locks[Inode(p)] # {}
    /\ fd' = [fd EXCEPT ![p] = {}]
    /\ ppc' = [ppc EXCEPT ![p] = "exited"]
    /\ outcome' = [outcome EXCEPT ![p] = "sys_exit_0"]
    /\ UNCHANGED <<run_vars, pid_path, locks, pid_data, seen_running>>

\* seek, truncate, write(str(os.getpid())), flush; then main_loop is entered
\* (lines 39-44, 94)
WritePid(p) ==
    /\ ppc[p] = "locked"
    /\ pid_data' = [pid_data EXCEPT ![Inode(p)] = {p}]
    /\ ppc' = [ppc EXCEPT ![p] = "main"]
    /\ UNCHANGED <<run_vars, pid_path, locks, fd, outcome, seen_running>>

\* main_loop ends: it returns, leaves by sys.exit(1) or raises; the with
\* statement then runs __exit__ in each case (lines 93-94)
MainLoopEnds(p) ==
    /\ ppc[p] = "main"
    /\ \E how \in {"returned", "sys_exit_1", "raised"} :
            outcome' = [outcome EXCEPT ![p] = how]
    /\ ppc' = [ppc EXCEPT ![p] = "exit"]
    /\ UNCHANGED <<run_vars, pid_path, locks, pid_data, fd, seen_running>>

\* self.pidfile.close(): the flock goes with the open file (lines 47-51)
Close(p) ==
    /\ ppc[p] = "exit"
    /\ locks' = [locks EXCEPT ![Inode(p)] = @ \ {p}]
    /\ fd' = [fd EXCEPT ![p] = {}]
    /\ ppc' = [ppc EXCEPT ![p] = "closed"]
    /\ UNCHANGED <<run_vars, pid_path, pid_data, outcome, seen_running>>

\* mutant of RemovePath: __exit__ ends with the close and leaves the file
RemovePath_Keeps(p) ==
    /\ ppc[p] = "closed"
    /\ pid_path # {}
    /\ ppc' = [ppc EXCEPT ![p] = "exited"]
    /\ UNCHANGED <<run_vars, pid_path, locks, pid_data, fd, outcome, seen_running>>

\* os.remove(self.path): whatever file the path names now is unlinked (line 52)
RemovePath(p) ==
    /\ ppc[p] = "closed"
    /\ pid_path # {}
    /\ pid_path' = {}
    /\ ppc' = [ppc EXCEPT ![p] = "exited"]
    /\ UNCHANGED <<run_vars, locks, pid_data, fd, outcome, seen_running>>

\* os.remove(self.path) with no file at the path: FileNotFoundError leaves
\* __exit__ (line 52)
RemoveMissing(p) ==
    /\ ppc[p] = "closed"
    /\ pid_path = {}
    /\ ppc' = [ppc EXCEPT ![p] = "exited"]
    /\ outcome' = [outcome EXCEPT ![p] = "raised"]
    /\ UNCHANGED <<run_vars, pid_path, locks, pid_data, fd, seen_running>>

LockNext ==
    \E p \in Procs :
        \/ Open(p) \/ Flock(p) \/ FlockBusy(p) \/ WritePid(p)
        \/ MainLoopEnds(p) \/ Close(p) \/ RemovePath(p) \/ RemoveMissing(p)

LockSpec == LockInit /\ [][LockNext]_vars

----------------------------------------------------------------------------
(* Properties of a successful attempt *)

\* the participants: the sections but the application's, in file order
RosterSeq == SelectSeq(sections, LAMBDA x : x # app_name)

Roster == {RosterSeq[i] : i \in 1..Len(RosterSeq)}

\* the exclusion set of giver g: the strings its 'exclude' option splits into
ExclusionSet(g) == {split(exclude[g])[i] : i \in 1..Len(split(exclude[g]))}

\* an attempt has succeeded and main_loop holds the pairing it returned
Succeeded == pairings.state = "dict"

\* C1: the pairing returned by a successful attempt is a bijection over the
\* roster: every participant is a key exactly once and a value exactly once
C1_Bijection ==
    Succeeded =>
        /\ Len(pairings.dict) = Cardinality(Roster)
        /\ \A g \in Roster :
            /\ Cardinality({i \in 1..Len(pairings.dict) : pairings.dict[i][1] = g}) = 1
            /\ Cardinality({i \in 1..Len(pairings.dict) : pairings.dict[i][2] = g}) = 1

\* a pairing of a roster of three or more has been returned
C1_Witness == Succeeded /\ Len(pairings.dict) >= 3

\* the names an 'exclude' text lists that are participants other than g
EffectiveIds(text, g) ==
    LET toks == SelectSeq(split(text), LAMBDA t : \E n \in Roster \ {g} : t = Str(n))
    IN  [i \in 1..Len(toks) |-> toks[i][1]]

\* C2: in a returned pairing no giver has a recipient of its exclusion set;
\* and whenever a giver's options are computed, the tokens of its 'exclude'
\* option that name the giver or nobody of the roster change nothing: the
\* options are those of the option with these tokens left out
C2_ExclusionsHonoured ==
    /\ Succeeded =>
        \A i \in 1..Len(pairings.dict) :
            Str(pairings.dict[i][2]) \notin ExclusionSet(pairings.dict[i][1])
    /\ (pc = "pick" /\ section_i <= Len(sections) /\ sections[section_i] # app_name) =>
        CurrentOptions =
            Options(sections[section_i], people, pp_pairings,
                    Joined(EffectiveIds(exclude[sections[section_i]], sections[section_i]),
                           <<Blank>>),
                    no_circles)

\* a pairing has been returned for a roster in which one giver excludes a
\* participant and another names itself or somebody not in the roster
C2_Witness ==
    /\ Succeeded
    /\ \E g, h \in Roster :
        /\ g # h
        /\ \E n \in Roster \ {g} : Str(n) \in ExclusionSet(g)
        /\ \E t \in ExclusionSet(h) : \A n \in Roster \ {h} : t # Str(n)

\* C3: in a returned pairing nobody is its own recipient, whether or not it
\* lists itself in its 'exclude' option
C3_NoSelfAssignment ==
    Succeeded => \A i \in 1..Len(pairings.dict) : pairings.dict[i][1] # pairings.dict[i][2]

\* a pairing has been returned in which one giver lists itself and another
\* does not
C3_Witness ==
    /\ Succeeded
    /\ \E g \in Roster : Str(g) \in ExclusionSet(g)
    /\ \E g \in Roster : Str(g) \notin ExclusionSet(g)

\* d holds a 2-cycle: A -> B and B -> A
HasTwoCycle(d) ==
    \E i, j \in 1..Len(d) : i # j /\ d[i][1] = d[j][2] /\ d[j][1] = d[i][2]

\* C4: with no_circles set, a returned pairing holds no 2-cycle
C4_NoTwoCycle == (no_circles /\ Succeeded) => ~HasTwoCycle(pairings.dict)

\* the recipients still available after the first k items of d were chosen
PeopleAfter(d, k) ==
    SelectSeq(RosterSeq, LAMBDA x : x \notin {d[i][2] : i \in 1..k})

\* with no_circles set a pairing has been returned in which, for some giver,
\* the circle check took away an option the other checks had left
C4_Witness ==
    /\ no_circles /\ Succeeded
    /\ \E k \in 1..(Len(pairings.dict) - 1) :
        LET g == pairings.dict[k+1][1]
            d == SubSeq(pairings.dict, 1, k)
        IN  Options(g, PeopleAfter(pairings.dict, k), d, exclude[g], TRUE)
                # Options(g, PeopleAfter(pairings.dict, k), d, exclude[g], FALSE)

----------------------------------------------------------------------------
(* The retry driver *)

\* the attempts the driver has caught as stuck: one "Retrying pairings." each
StuckLogged ==
    Cardinality({i \in 1..Len(errlog) : errlog[i][1] = "Retrying pairings."})

\* the run has written, or begun to write, the pairings file
OutputWritten == tempfile # NoFile \/ target \notin {NoFile, OldFile}

\* C5: for max_tries >= 1, attempts are made until one succeeds or max_tries
\* are made: tries never exceeds max_tries; after a success no attempt is in
\* progress, main_loop holds the pairing of that attempt and every earlier
\* attempt was stuck; whatever is mailed or written is that pairing; and the
\* run ends in sys.exit(1) only with max_tries attempts made, all stuck
C5_RetryDriver ==
    max_tries >= 1 =>
        /\ tries <= max_tries
        /\ picked =>
            /\ pc # "pick"
            /\ Succeeded /\ pairings.dict = pp_pairings
            /\ StuckLogged = tries - 1
        /\ ~picked => StuckLogged = tries - (IF pc = "pick" THEN 1 ELSE 0)
        /\ (sent # <<>> \/ OutputWritten) => picked
        /\ \A i \in 1..Len(sent) :
            sent[i].name = pairings.dict[i][1] /\ sent[i].pair = pairings.dict[i][2]
        /\ target \notin {NoFile, OldFile} => target.data = pformat(pairings.dict)
        /\ (pc \in {"check", "sys_exit_1"} /\ ~picked) => tries = max_tries
        /\ pc = "sys_exit_1" => (~picked /\ StuckLogged = max_tries)

\* a run has ended normally after one stuck attempt and one successful one,
\* with an attempt of its budget left unused
C5_Witness ==
    /\ pc = "returned" /\ sent # <<>>
    /\ StuckLogged = 1 /\ tries = 2 /\ max_tries = 3

RECURSIVE CanComplete(_, _, _)
\* some choices of recipients take an attempt that is at section i, with the
\* recipients ppl left and the dict d built, to its return
CanComplete(i, ppl, d) ==
    IF i > Len(sections) THEN TRUE
    ELSE IF sections[i] = app_name THEN CanComplete(i+1, ppl, d)
    ELSE LET opts == Options(sections[i], ppl, d, exclude[sections[i]], no_circles)
         IN  \E k \in 1..Len(opts) :
                CanComplete(i+1, Consume(ppl, opts[k]), Append(d, <<sections[i], opts[k]>>))

\* every attempt on the roster gets stuck, whatever is chosen
AlwaysStuck == ~CanComplete(1, Remove(sections, app_name), <<>>)

\* C6: on a roster on which every attempt gets stuck, the run makes exactly
\* max_tries attempts, all stuck, and then ends abnormally (by sys.exit(1) when
\* max_tries >= 1); it never writes the pairings file nor calls send_message
C6_Exhaustion ==
    AlwaysStuck =>
        /\ ~Succeeded /\ ~picked
        /\ sent = <<>> /\ ~OutputWritten
        /\ pc \in {"loop", "pick", "check", "sys_exit_1", "raised"}
        /\ pc \in {"check", "sys_exit_1", "raised"} =>
                (tries = max_tries /\ StuckLogged = max_tries)
        /\ pc = "raised" => max_tries = 0

\* two participants who exclude each other: the run has ended in sys.exit(1)
\* after max_tries = 3 attempts
C6_Witness ==
    /\ RosterSeq = <<"Joe", "Holly">>
    /\ Str("Holly") \in ExclusionSet("Joe") /\ Str("Joe") \in ExclusionSet("Holly")
    /\ AlwaysStuck
    /\ pc = "sys_exit_1" /\ tries = 3 /\ max_tries = 3

\* the roster of the sample, with the exclusions Joe -> Holly,
\* Holly -> {Joe, Jane}, Jane -> Peter, Peter -> Jane
SampleRoster ==
    /\ RosterSeq = Names
    /\ ExclusionSet("Joe") = {Str("Holly")}
    /\ ExclusionSet("Holly") = {Str("Joe"), Str("Jane")}
    /\ ExclusionSet("Jane") = {Str("Peter")}
    /\ ExclusionSet("Peter") = {Str("Jane")}

\* d is a bijection over the sample roster that respects its four exclusions
SampleValid(d) ==
    /\ Len(d) = Len(Names) /\ Keys(d) = NameSet /\ Values(d) = NameSet
    /\ Get(d, "Joe") # "Holly"
    /\ Get(d, "Holly") \notin {"Joe", "Jane"}
    /\ Get(d, "Jane") # "Peter"
    /\ Get(d, "Peter") # "Jane"

\* C7: on the sample roster, with no_circles off or on, every attempt starts
\* in a state from which some choices complete it, and the pairing a run
\* ends up with is a bijection that respects the four exclusions
C7_SampleRosterSucceeds ==
    SampleRoster =>
        /\ (pc = "pick" /\ section_i = 1) => CanComplete(section_i, people, pp_pairings)
        /\ Succeeded => SampleValid(pairings.dict)

\* on the sample roster with no_circles set, a run has ended normally with a
\* valid pairing found at its second attempt
C7_Witness ==
    /\ SampleRoster /\ no_circles
    /\ pc = "returned" /\ tries = 2 /\ StuckLogged = 1
    /\ SampleValid(pairings.dict)

----------------------------------------------------------------------------
(* Mail *)

\* C10: a mail error, in the session setup or in the sending, is logged and
\* skipped: no call of send_message raises, main_loop stays in its mail loop
\* until it has called send_message for every giver, and the pairing is
\* unchanged
C10_MailErrorsNonFatal ==
    sent # <<>> =>
        /\ \A i \in 1..Len(sent) : ~sent[i].raised
        /\ pc \in {"mail", "returned"}
        /\ pc = "returned" => Len(sent) = Len(pairings.dict)
        /\ Succeeded /\ pairings.dict = pp_pairings

----------------------------------------------------------------------------
(* Single-instance execution *)

\* C9: an invocation that opened the pid file while another was inside
\* main_loop holding the lock, and makes its lock attempt while that one is
\* still there, exits with status 0 and never enters main_loop, and its exit
\* changes neither the path, nor the content of any pid file, nor any lock
C9_SecondExits ==
    [][\A q \in Procs :
        (/\ ppc[q] = "opened" /\ ppc'[q] # "opened"
         /\ \E p \in seen_running[q] : ppc[p] = "main" /\ HoldsLock(p))
        => (/\ ppc'[q] = "exited" /\ outcome'[q] = "sys_exit_0"
            /\ pid_path' = pid_path /\ pid_data' = pid_data /\ locks' = locks)]_vars

\* C8: at no time are two invocations both inside main_loop
C8_SingleInstance == Cardinality({p \in Procs : ppc[p] = "main"}) <= 1

----------------------------------------------------------------------------
(* Configuration errors *)

\* C11: a configuration without participant sections is a fatal error: no
\* attempt on it ever succeeds and the run does not end normally
C11_EmptyRosterFatal ==
    RosterSeq = <<>> => (~Succeeded /\ pc # "returned")

----------------------------------------------------------------------------
(* Output *)

\* C12: send_message is called only once the pairing is complete and, when a
\* pairings file is asked for, written; the calls follow the items of the
\* pairing, each with the giver's own address, the giver's name and its
\* recipient's name; and when the run returns, every giver has had exactly one
\* call and nobody else any
C12_MailDispatch ==
    /\ sent # <<>> =>
        /\ Succeeded /\ picked /\ pairings.dict = pp_pairings
        /\ pc \in {"mail", "returned", "raised"}
        /\ pairings_file =>
            (tempfile = NoFile
                /\ target = [exists |-> TRUE, data |-> pformat(pairings.dict)])
    /\ Len(sent) <= Len(pairings.dict)
    /\ \A i \in 1..Len(sent) :
        /\ sent[i].name = pairings.dict[i][1]
        /\ sent[i].pair = pairings.dict[i][2]
        /\ sent[i].to = email(sent[i].name)
    /\ pc = "returned" =>
        /\ Len(sent) = Cardinality(Roster)
        /\ \A g \in Roster :
            Cardinality({i \in 1..Len(sent) : sent[i].name = g}) = 1

\* a run with a pairings file has returned after mailing three givers, no
\* mail step having failed
C12_Witness ==
    /\ pc = "returned" /\ pairings_file
    /\ Len(sent) = 3 /\ errlog = <<>>

\* C13: the file at the target path changes only by the rename that ends
\* safe_write, and then to the complete serialization of the pairing: at
\* every step before, and when the writing fails part-way, it is as it was
C13_AtomicWrite ==
    [][\/ target' = target
       \/ /\ pc = "write_exit"
          /\ tempfile = [exists |-> TRUE, data |-> pformat(pairings.dict)]
          /\ target' = tempfile]_vars

\* a write has failed with part of the serialization in the temporary file,
\* and the target still holds what it held before the run
C13_Witness ==
    /\ pc = "raised" /\ tempfile.exists
    /\ tempfile.data # <<>> /\ tempfile.data # pformat(pairings.dict)
    /\ target = OldFile

----------------------------------------------------------------------------
(* Exclusion lists *)

\* the identifiers an 'exclude' text lists, however they are separated
ListedIds(text) == {text[i] : i \in {j \in 1..Len(text) : text[j] \in NameSet}}

\* C14: whether a list is written "Joe Jane" or "Joe, Jane", none of the
\* participants it lists is given to its giver in a returned pairing
C14_CommaListExcludes ==
    Succeeded =>
        \A i \in 1..Len(pairings.dict) :
            pairings.dict[i][2] \notin ListedIds(exclude[pairings.dict[i][1]])

----------------------------------------------------------------------------
(* Attempts *)

\* C15: every attempt starts with an empty dict and the whole roster, in
\* roster order, as the recipients available; no step of a run changes the
\* sections or their 'exclude' options; and the pairing main_loop gets is the
\* dict of the attempt that returned it, with one item per participant
C15_AttemptsIndependent ==
    [][/\ sections' = sections /\ exclude' = exclude
       /\ (pc = "loop" /\ pc' = "pick") =>
            (pp_pairings' = <<>> /\ people' = RosterSeq /\ section_i' = 1)
       /\ (pc = "pick" /\ pc' = "loop" /\ picked') =>
            /\ pairings'.dict = pp_pairings
            /\ Len(pp_pairings) = Len(RosterSeq)
            /\ \A i \in 1..Len(pp_pairings) : pp_pairings[i][1] = RosterSeq[i]]_vars

\* an attempt has succeeded after an earlier one got stuck with part of a
\* pairing built
C15_Witness ==
    /\ Succeeded /\ tries >= 2
    /\ \E i \in 1..Len(errlog) :
        errlog[i][1] = "No remaining options for" /\ errlog[i][2] # RosterSeq[1]

\* C16: a giver whose options are empty ends the attempt at once: the next
\* step is the failure of the attempt, with no further giver processed, no
\* item added and no pairing returned
C16_GreedyFailsAtOnce ==
    [][(/\ pc = "pick" /\ section_i <= Len(sections)
        /\ sections[section_i] # app_name
        /\ CurrentOptions = <<>>)
       => (/\ pc' = "loop" /\ pairings' = None /\ ~picked'
           /\ pp_pairings' = pp_pairings /\ people' = people
           /\ section_i' = section_i)]_vars

\* on the sample roster, which admits a valid pairing, Joe has chosen Peter
\* and the attempt has failed at Holly, who was left without options
C16_Witness ==
    /\ SampleRoster /\ CanComplete(1, FreshPeople, <<>>)
    /\ pc = "loop" /\ pairings = None
    /\ pp_pairings = << <<"Joe", "Peter">> >>
    /\ Len(errlog) >= 2
    /\ errlog[Len(errlog) - 1] = <<"No remaining options for", "Holly">>

RECURSIVE TwoCyclePass(_, _, _, _)
\* some choices of recipients take a pass over configuration c with circle
\* prevention, at section i with the recipients ppl left and the dict d built,
\* to a returned pairing that holds a 2-cycle
TwoCyclePass(c, i, ppl, d) ==
    IF i > Len(c.sections) THEN HasTwoCycle(d)
    ELSE IF c.sections[i] = app_name THEN TwoCyclePass(c, i+1, ppl, d)
    ELSE LET opts == Options(c.sections[i], ppl, d, c.exclude[c.sections[i]], TRUE)
         IN  \E k \in 1..Len(opts) :
                TwoCyclePass(c, i+1, Consume(ppl, opts[k]),
                             Append(d, <<c.sections[i], opts[k]>>))

\* C17 as stated: when no_circles is set there still is a roster on which a
\* pass can return a pairing that holds a 2-cycle
C17_TwoCycleReturnable ==
    no_circles =>
        \E c \in SmallConfigs \cup SampleConfigs :
            TwoCyclePass(c, 1, Remove(c.sections, app_name), <<>>)

\* C17, amended: the check looks only at the items fixed before the current
\* giver, and that is enough: with no_circles set, whoever has already chosen
\* the current giver is not among its options, so that no pass, finished or
\* not, ever holds a 2-cycle
C17_NoTwoCycleInAnyPass ==
    no_circles =>
        /\ ~HasTwoCycle(pp_pairings)
        /\ (pc = "pick" /\ section_i <= Len(sections)
                /\ sections[section_i] # app_name) =>
            \A i \in 1..Len(pp_pairings) :
                pp_pairings[i][2] = sections[section_i]
                    => ~In(pp_pairings[i][1], CurrentOptions)

\* with no_circles set, the giver the loop is at was chosen by somebody who
\* would be among its options but for the circle check
C17_Witness ==
    /\ no_circles /\ pc = "pick" /\ section_i <= Len(sections)
    /\ sections[section_i] # app_name
    /\ \E i \in 1..Len(pp_pairings) :
        /\ pp_pairings[i][2] = sections[section_i]
        /\ In(pp_pairings[i][1],
              Options(sections[section_i], people, pp_pairings,
                      exclude[sections[section_i]], FALSE))

\* C19: at every step of an attempt the recipients given and those still
\* available are disjoint and together the roster, nobody is given twice, the
\* keys of the dict are the givers processed so far, in roster order, and the
\* items of the dict and the recipients available number the roster
C19_AttemptInvariant ==
    pc = "pick" =>
        LET avail == {people[i] : i \in 1..Len(people)}
            done  == {i \in 1..(section_i - 1) : i <= Len(sections) /\ sections[i] # app_name}
        IN  /\ Values(pp_pairings) \cap avail = {}
            /\ Values(pp_pairings) \cup avail = Roster
            /\ Cardinality(Values(pp_pairings)) = Len(pp_pairings)
            /\ Cardinality(avail) = Len(people)
            /\ Len(pp_pairings) = Cardinality(done)
            /\ Len(pp_pairings) <= Len(RosterSeq)
            /\ \A i \in 1..Len(pp_pairings) : pp_pairings[i][1] = RosterSeq[i]
            /\ Len(pp_pairings) + Len(people) = Len(RosterSeq)

\* a second attempt is half-way through a roster of four
C19_Witness ==
    /\ pc = "pick" /\ tries = 2
    /\ Len(pp_pairings) = 2 /\ Len(people) = 2

----------------------------------------------------------------------------
(* Release of the lock *)

\* invocation p got the lock and ran main_loop to one of its ends
Acquired(p) == outcome[p] \in {"returned", "sys_exit_1", "raised"}

\* no invocation is between its start and its exit
Quiescent == \A p \in Procs : ppc[p] \in {"start", "exited"}

\* C18: however main_loop ended, an invocation that has exited holds no lock
\* and has no pid file open; once the invocations that ran have all exited,
\* the pid-file path names no file and no lock is held; and a lock attempt
\* fails only against an invocation that has not finished, so that one started
\* after the runs have finished gets the lock
C18_LockReleased ==
    /\ \A p \in Procs : ppc[p] = "exited" => (~HoldsLock(p) /\ fd[p] = {})
    /\ (Quiescent /\ \E p \in Procs : Acquired(p)) =>
            (pid_path = {} /\ \A i \in Inodes : locks[i] = {})
    /\ \A q \in Procs : ppc[q] = "opened" =>
            /\ \A h \in locks[Inode(q)] : ppc[h] \in {"locked", "main", "exit"}
            /\ (\A p \in Procs \ {q} : ppc[p] \in {"start", "exited"})
                    => locks[Inode(q)] = {}

\* three runs, one after the other, have ended in the three ways main_loop
\* can end, and each got the lock
C18_Witness ==
    /\ Quiescent
    /\ {outcome[p] : p \in Procs} = {"returned", "sys_exit_1", "raised"}
    /\ pid_path = {}

====
